---- MODULE Spec2Model ----
(***************************************************************************)
(* Model of the RAG chat plugin (src/main.ts): the question dispatcher     *)
(* handleQuestionSubmit, the result poller renderResultsWhenAvailable /    *)
(* checkResults, and the document merge performed inside checkResults.     *)
(*                                                                         *)
(* Texts are sequences of characters.  A character is a one-character      *)
(* string; the only exception is the token "<form>", which stands for the  *)
(* HTML markup of getInitialContent (no white space at its ends, no dash). *)
(* Files hold <<"absent">>, <<"empty">>, <<"garbage">> (text that is not   *)
(* JSON) or <<"json", v>>; v is a JSON value <<"null">>, <<"num", n>>,     *)
(* <<"str", s>>, <<"arr", items, props>> or <<"obj", props>>.              *)
(***************************************************************************)
EXTENDS Integers, Sequences, FiniteSets, TLC

NL == "\n"
SP == " "

----------------------------------------------------------------------------
(* String primitives of JavaScript used by the plugin.                     *)

\* White space removed by String.prototype.trim.
IsSpace(c) == c \in {SP, NL}

RECURSIVE TrimStart(_)
TrimStart(s) ==
  IF s = <<>> THEN <<>>
  ELSE IF IsSpace(Head(s)) THEN TrimStart(Tail(s)) ELSE s

RECURSIVE TrimEnd(_)
TrimEnd(s) ==
  IF s = <<>> THEN <<>>
  ELSE IF IsSpace(s[Len(s)]) THEN TrimEnd(SubSeq(s, 1, Len(s) - 1)) ELSE s

\* s.trim()
Trim(s) == TrimEnd(TrimStart(s))

\* TRUE iff sub occurs in s at position i (1-based).
OccursAt(s, sub, i) ==
  /\ i >= 1
  /\ i + Len(sub) - 1 <= Len(s)
  /\ SubSeq(s, i, i + Len(sub) - 1) = sub

\* s.indexOf(sub), 1-based; 0 when sub does not occur.
IndexOf(s, sub) ==
  IF \E i \in 1..(Len(s) + 1) : OccursAt(s, sub, i)
  THEN CHOOSE i \in 1..(Len(s) + 1) :
         /\ OccursAt(s, sub, i)
         /\ \A j \in 1..(i - 1) : ~OccursAt(s, sub, j)
  ELSE 0

\* s.includes(sub)
Includes(s, sub) == IndexOf(s, sub) # 0

\* s.split(sep) for a non-empty separator: a sequence of texts.
RECURSIVE Split(_, _)
Split(s, sep) ==
  LET i == IndexOf(s, sep) IN
  IF i = 0 THEN << s >>
  ELSE << SubSeq(s, 1, i - 1) >> \o Split(SubSeq(s, i + Len(sep), Len(s)), sep)

\* parts.join(sep)
RECURSIVE Join(_, _)
Join(parts, sep) ==
  IF parts = <<>> THEN <<>>
  ELSE IF Len(parts) = 1 THEN parts[1]
  ELSE parts[1] \o sep \o Join(Tail(parts), sep)

\* items.map(f) for a sequence.
Map(f(_), items) == [i \in 1..Len(items) |-> f(items[i])]

----------------------------------------------------------------------------
(* path.basename / path.extname (posix flavour).                           *)

\* Index of the last occurrence of character c in s, 0 if none.
LastIndexOfChar(s, c) ==
  IF \E i \in 1..Len(s) : s[i] = c
  THEN CHOOSE i \in 1..Len(s) : s[i] = c /\ \A j \in (i + 1)..Len(s) : s[j] # c
  ELSE 0

RECURSIVE StripTrailingSlashes(_)
StripTrailingSlashes(p) ==
  IF Len(p) > 1 /\ p[Len(p)] = "/"
  THEN StripTrailingSlashes(SubSeq(p, 1, Len(p) - 1))
  ELSE p

\* Last path component, trailing separators ignored.
LastComponent(p) ==
  LET t == StripTrailingSlashes(p)
      i == LastIndexOfChar(t, "/")
  IN  IF t = <<"/">> THEN <<>> ELSE SubSeq(t, i + 1, Len(t))

\* path.extname(p): from the last "." of the last component to its end;
\* empty when there is no ".", when the only "." is the first character,
\* and for the component "..".
extname(p) ==
  LET b == LastComponent(p)
      i == LastIndexOfChar(b, ".")
  IN  IF i <= 1 \/ b = <<".", ".">> THEN <<>> ELSE SubSeq(b, i, Len(b))

\* path.basename(p, ext): the last component without the suffix ext
\* (kept when the component is exactly ext).
basename(p, ext) ==
  LET b == LastComponent(p)
      n == Len(b) - Len(ext)
  IN  IF ext # <<>> /\ n > 0 /\ SubSeq(b, n + 1, Len(b)) = ext
      THEN SubSeq(b, 1, n)
      ELSE b

----------------------------------------------------------------------------
(* JSON texts and JavaScript values.                                       *)

Absent  == <<"absent">>
Empty   == <<"empty">>
Garbage == <<"garbage">>
JsonText(v) == <<"json", v>>

Undefined == <<"undefined">>
JNull     == <<"null">>
JStr(s)   == <<"str", s>>
JNum(n)   == <<"num", n>>
JArr(items, props) == <<"arr", items, props>>
JObj(props) == <<"obj", props>>
NoProps   == <<>>

IsObj(v) == v[1] = "obj"
IsArr(v) == v[1] = "arr"
IsStr(v) == v[1] = "str"

\* Own named properties of a value (arrays may carry them in memory).
PropsOf(v) == IF IsObj(v) THEN v[2] ELSE IF IsArr(v) THEN v[3] ELSE NoProps

\* v.k for a value other than null and undefined (those throw a TypeError).
GetProp(v, k) == IF k \in DOMAIN PropsOf(v) THEN PropsOf(v)[k] ELSE Undefined

\* v.k = x succeeds on objects and arrays; the module is strict code, so it
\* throws a TypeError on null and on primitives.
CanSetProp(v) == IsObj(v) \/ IsArr(v)

SetProp(v, k, x) ==
  LET p == PropsOf(v)
      q == [j \in (DOMAIN p) \cup {k} |-> IF j = k THEN x ELSE p[j]]
  IN  IF IsObj(v) THEN JObj(q) ELSE JArr(v[2], q)

\* Truthiness, as used by the || operator.
Truthy(v) ==
  /\ v # Undefined
  /\ v # JNull
  /\ v # JStr(<<>>)
  /\ v # JNum(0)

\* JSON.parse succeeds exactly on JSON texts; the empty file and garbage
\* throw a SyntaxError.
Parses(text) == text[1] = "json"

Parse(text) == text[2]

\* JSON.stringify(v, null, 2) as a file content: named properties of an
\* array are not serialised.
Stringify(v) ==
  IF IsArr(v) THEN JsonText(JArr(v[2], NoProps)) ELSE JsonText(v)

\* fs.existsSync
existsSync(file) == file # Absent

\* The question a reader of the request file finds: the question field of
\* the parsed record, Undefined when there is no such record or field.
QuestionIn(file) ==
  IF Parses(file) /\ Parse(file) # JNull
  THEN GetProp(Parse(file), "question")
  ELSE Undefined

----------------------------------------------------------------------------
(* Rendering of the answer block and merge into the document               *)
(* (checkResults, lines 157-173).                                          *)

Placeholder == <<"N", "o", " ", "a", "n", "s", "w", "e", "r", " ", "p", "r", "o", "v", "i", "d", "e", "d">>
HeadingPrefix == <<"#", "#", " ">>
SourcesHeading == <<"\n", "\n", "#", "#", "#", " ", "S", "o", "u", "r", "c", "e", "s", ":", "\n">>
NoSources == <<"-", " ", "N", "o", " ", "s", "o", "u", "r", "c", "e", "s", " ", "f", "o", "u", "n", "d", ".">>
LinkOpen == <<"-", " ", "[", "[">>
LinkClose == <<"]", "]">>
BlockEnd == <<"\n", "\n", "-", "-", "-", "\n", "\n">>
Delimiter == <<"-", "-", "-">>

\* resultsData.answer || "No answer provided"
answerOf(resultsData) ==
  LET a == GetProp(resultsData, "answer")
  IN  IF Truthy(a) THEN a ELSE JStr(Placeholder)

\* resultsData.sources || []
sourcesOf(resultsData) ==
  LET x == GetProp(resultsData, "sources")
  IN  IF Truthy(x) THEN x ELSE JArr(<<>>, NoProps)

\* sources.length > 0
HasSources(sources) ==
  \/ IsArr(sources) /\ Len(sources[2]) > 0
  \/ IsStr(sources) /\ Len(sources[2]) > 0

\* Mutant: the link keeps the extension.
sourceLinkWithExt(item) == LinkOpen \o basename(item[2], <<>>) \o LinkClose

\* `- [[${sourceName}]]` for one item
sourceLink(item) == LinkOpen \o basename(item[2], extname(item[2])) \o LinkClose

\* The sources section.
sourcesText(sources) ==
  IF HasSources(sources)
  THEN Join(Map(sourceLink, sources[2]), <<NL>>)
  ELSE NoSources

\* Interpolation of ${answer}: a string is inserted as it is, any other
\* value by its conversion to a string, kept as one opaque token.
ToText(v) == IF IsStr(v) THEN v[2] ELSE << "<value>" >>

\* answerContent
answerContent(question, answer, sources) ==
  HeadingPrefix \o question \o <<NL, NL>> \o ToText(answer)
    \o SourcesHeading \o sourcesText(sources) \o BlockEnd

\* Lines 157-169 throw (SyntaxError or TypeError) when the content does not
\* parse, parses to null, or when sources is non-empty without being an
\* array of strings.
RenderThrows(text) ==
  \/ ~Parses(text)
  \/ Parse(text) = JNull
  \/ LET src == sourcesOf(Parse(text)) IN
       /\ HasSources(src)
       /\ \/ ~IsArr(src)
          \/ \E i \in 1..Len(src[2]) : ~IsStr(src[2][i])

\* The block rendered from the content of the response file.
RenderBlock(question, text) ==
  answerContent(question, answerOf(Parse(text)), sourcesOf(Parse(text)))

\* Mutant: the block is appended after the earlier body.
newContentAppended(currentContent, block) ==
  LET parts  == Split(currentContent, Delimiter)
      header == Head(parts)
      rest   == Tail(parts)
  IN  Trim(header) \o <<NL, NL>> \o Delimiter \o <<NL, NL>>
        \o Trim(Join(rest, Delimiter)) \o block

\* Mutant: the header loses its first character.
newContentCutHeader(currentContent, block) ==
  LET parts  == Split(currentContent, Delimiter)
      header == Trim(Head(parts))
      rest   == Tail(parts)
  IN  (IF header = <<>> THEN <<"x">> ELSE Tail(header))
        \o <<NL, NL>> \o Delimiter \o <<NL, NL>> \o block
        \o Trim(Join(rest, Delimiter))

\* Mutant: only the body up to its next delimiter is kept.
newContentFirstRest(currentContent, block) ==
  LET parts  == Split(currentContent, Delimiter)
      header == Head(parts)
      rest   == Tail(parts)
  IN  Trim(header) \o <<NL, NL>> \o Delimiter \o <<NL, NL>> \o block
        \o (IF rest = <<>> THEN <<>> ELSE Trim(Head(rest)))

\* newContent (lines 172-173)
newContent(currentContent, block) ==
  LET parts  == Split(currentContent, Delimiter)
      header == Head(parts)
      rest   == Tail(parts)
  IN  Trim(header) \o <<NL, NL>> \o Delimiter \o <<NL, NL>> \o block
        \o Trim(Join(rest, Delimiter))

\* getInitialContent: the chat form markup, kept as one token, framed by
\* the line breaks and the delimiter of the template.
getInitialContent == <<NL, "<form>", NL, NL, "-", "-", "-", NL>>

----------------------------------------------------------------------------
(* Bounds and input sets.                                                  *)

\* Number of Response Records the answering process writes in one run.
MaxResponses == 1

\* Number of times the user edits or deletes the document in one run.
MaxEdits == 1

maxRetries == 30

\* Invocations of handleQuestionSubmit; the single-submission
\* specification runs the first only.
Procs == {"s1", "s2"}
Single == {"s1"}

Files == {"req", "res"}

\* The question of the polling specification, and the questions of the
\* dispatcher and merge specifications.
Questions == { <<"q">> }
AllQuestions == { <<"q">>, <<>>, <<"q", "-", "-", "-">> }

\* Contents of the request file before the submission.
ReqPriors ==
  { Absent, Empty, Garbage,
    JsonText(JNull),
    JsonText(JNum(5)),
    JsonText(JArr(<<>>, NoProps)),
    JsonText(JObj(NoProps)),
    JsonText(JObj([question |-> JStr(<<"o">>), extra |-> JStr(<<"x">>)])) }

\* Contents the answering process may leave in the response file.
ResponseTexts ==
  { Garbage,
    JsonText(JObj(NoProps)),
    JsonText(JObj([answer |-> JStr(<<"Y">>), sources |-> JArr(<<>>, NoProps)])),
    JsonText(JObj([answer |-> JStr(<<"Y">>),
                   sources |-> JArr(<< JStr(<<"n", "/", "A", ".", "m", "d">>),
                                       JStr(<<"B", ".", "m", "d">>) >>, NoProps)])) }

\* Document texts at the start.
InitDocs ==
  { getInitialContent,
    <<SP, "a", SP, "-", "-", "-", SP, "b", "-", "-", "-", "c", NL>> }

\* Longest document text of the merge specification.
MaxDocLen == 4

DocAlphabet == {"a", SP, "-"}

\* Every text of at most MaxDocLen characters, and the fresh chat document.
AllDocs ==
  UNION { [1..n -> DocAlphabet] : n \in 0..MaxDocLen } \cup { getInitialContent }

\* Longest list of sources of the rendering specification.
MaxSources == 2

\* Source paths: in a folder, without extension, below a dotted folder, a
\* dot file, with two dots.
SourcePaths ==
  { <<"n", "/", "A", ".", "m", "d">>,
    <<"C">>,
    <<"d", ".", "e", "/", "F">>,
    <<".", "h">>,
    <<"x", ".", "y", ".", "z">> }

\* Every list of at most MaxSources source paths.
SourceLists == UNION { [1..n -> SourcePaths] : n \in 0..MaxSources }

\* Response Records with every list of sources, and the records whose
\* sources field is missing or null.
RenderTexts ==
  { JsonText(JObj([answer |-> JStr(<<"Y">>),
                   sources |-> JArr([i \in DOMAIN l |-> JStr(l[i])], NoProps)])) :
      l \in SourceLists }
    \cup { JsonText(JObj([answer |-> JStr(<<"Y">>)])),
           JsonText(JObj([answer |-> JStr(<<"Y">>), sources |-> JNull])) }

\* Texts the user may leave in the document by an edit.
EditTexts == { <<"e", "-", "-", "-">> }

----------------------------------------------------------------------------
(* State.                                                                  *)

VARIABLES
  reqFile,    \* content of rag_question.json
  resFile,    \* content of rag_results.json
  locks,      \* per file: "free", "foreign", or the invocation that acquired it
  doc,        \* text of the target document
  docExists,  \* FALSE once the document is gone from the vault
  sub,        \* per invocation of handleQuestionSubmit: pc, question, acquired
  timer,      \* per sequence: retry counts of the pending setTimeout callbacks
  chk,        \* per sequence: the checks suspended at an await, by retry count
  unlinks,    \* per sequence: fs.unlink calls whose callback has not run
  notes,      \* per invocation: Notices shown, by message
  escaped,    \* per invocation: rejections no handler caught
  nChecks,    \* per sequence: existence checks performed
  nDocReads,  \* per sequence: vault.read calls completed
  nDocWrites, \* per sequence: vault.modify calls completed
  nResponses, \* Response Records written by the answering process
  nEdits,     \* edits made by the user
  nFound,     \* per sequence: existence checks that found the response file
  doc0,       \* history: the document text at the start
  lastResponse \* history: the last content written by the answering process

vars == << reqFile, resFile, locks, doc, docExists, sub, timer, chk, unlinks,
           notes, escaped, nChecks, nDocReads, nDocWrites, nResponses, nEdits,
           nFound, doc0, lastResponse >>

NoNotes == [submitFailed |-> 0, pollFailed |-> 0, rendered |-> 0, retrying |-> 0]

NoChecks == <<>>

Idle == [pc |-> "idle", question |-> <<>>, acquired |-> FALSE, prior |-> Absent]

\* Nothing submitted yet, no response file, no lock held.
Fresh ==
  /\ resFile = Absent
  /\ locks = [f \in Files |-> "free"]
  /\ docExists = TRUE
  /\ sub = [s \in Procs |-> Idle]
  /\ timer = [s \in Procs |-> {}]
  /\ chk = [s \in Procs |-> NoChecks]
  /\ unlinks = [s \in Procs |-> 0]
  /\ notes = [s \in Procs |-> NoNotes]
  /\ escaped = [s \in Procs |-> 0]
  /\ nChecks = [s \in Procs |-> 0]
  /\ nDocReads = [s \in Procs |-> 0]
  /\ nDocWrites = [s \in Procs |-> 0]
  /\ nResponses = 0
  /\ nEdits = 0
  /\ nFound = [s \in Procs |-> 0]
  /\ doc0 = doc
  /\ lastResponse = Absent

\* Any of the documents, no request file yet.
Init ==
  /\ reqFile = Absent
  /\ doc \in InitDocs
  /\ Fresh

\* Any prior request file, the fresh chat document.
InitSubmit ==
  /\ reqFile \in ReqPriors
  /\ doc = getInitialContent
  /\ Fresh

----------------------------------------------------------------------------
(* proper-lockfile.                                                        *)

\* lock(file) resolves iff the file exists and nobody holds its lock.
LockResolves(f, content) == locks[f] = "free" /\ existsSync(content)

\* unlock(file) resolves iff this process holds the lock of the file; the
\* library keeps one entry per path and does not know which caller took it.
UnlockResolves(f) == locks[f] \in Procs

\* new Notice(message)
Notice(s, message) ==
  notes' = [notes EXCEPT ![s][message] = @ + 1]

\* The checks of sequence s with the check of retry count k set to c.
WithCheck(s, k, c) ==
  [j \in (DOMAIN chk[s]) \cup {k} |-> IF j = k THEN c ELSE chk[s][j]]

\* The checks of sequence s without the check of retry count k.
WithoutCheck(s, k) ==
  [j \in (DOMAIN chk[s]) \ {k} |-> chk[s][j]]

NewCheck ==
  [pc |-> "locking", acquired |-> FALSE, block |-> <<>>,
   currentContent |-> <<>>, content |-> <<>>]

\* Mutant: the await lasts until the polling sequence has nothing left.
RenderAwaitsSequence(s) == timer[s] = {} /\ DOMAIN chk[s] = {}

\* The await of renderResultsWhenAvailable in handleQuestionSubmit is
\* settled as soon as checkResults(0) has been called: line 204 neither
\* awaits nor returns the promise of the check.
RenderSettled(s) == TRUE

\* A continuation of a settled promise runs before any timer or I/O callback.
MicrotaskReady ==
  \E s \in Procs : sub[s].pc = "rendering" /\ RenderSettled(s)

\* The sequence of s has nothing left to run.
Terminated(s) ==
  /\ sub[s].pc \in {"done", "rejected"}
  /\ timer[s] = {}
  /\ DOMAIN chk[s] = {}
  /\ unlinks[s] = 0

----------------------------------------------------------------------------
(* renderResultsWhenAvailable / checkResults.                              *)

\* Mutant: one check too many before giving up.
ExhaustedLate(k) == k > maxRetries

\* retryCount >= maxRetries (line 147)
Exhausted(k) == k >= maxRetries

\* checkResults(k) up to its first await, with `pending` the timers left:
\* gives up at maxRetries, starts locking a found file, or schedules the
\* next check.
checkResults(s, k, pending) ==
  IF Exhausted(k)
  THEN /\ Notice(s, "pollFailed")
       /\ timer' = [timer EXCEPT ![s] = pending]
       /\ UNCHANGED << chk, nChecks, nFound >>
  ELSE /\ nChecks' = [nChecks EXCEPT ![s] = @ + 1]
       /\ UNCHANGED notes
       /\ IF existsSync(resFile)
          THEN /\ chk' = [chk EXCEPT ![s] = WithCheck(s, k, NewCheck)]
               /\ timer' = [timer EXCEPT ![s] = pending]
               /\ nFound' = [nFound EXCEPT ![s] = @ + 1]
          ELSE /\ timer' = [timer EXCEPT ![s] = pending \cup {k + 1}]
               /\ UNCHANGED << chk, nFound >>

\* A setTimeout callback runs checkResults(k).
TimerFire(s, k) ==
  /\ ~MicrotaskReady
  /\ k \in timer[s]
  /\ checkResults(s, k, timer[s] \ {k})
  /\ UNCHANGED << reqFile, resFile, locks, doc, docExists, sub, unlinks,
                  escaped, nDocReads, nDocWrites, nResponses, nEdits,
                  doc0, lastResponse >>

\* The check leaves its try block for the finally block: unlock is called.
ToFinally(s, k, c) ==
  chk' = [chk EXCEPT ![s] = WithCheck(s, k, [c EXCEPT !.pc = "unlocking"])]

\* lock(resultsPath) settles (line 155); on success lines 157-171 run up to
\* the call of vault.read; a rejection or a throw is logged by the catch.
CheckLockDone(s, k) ==
  /\ ~MicrotaskReady
  /\ k \in DOMAIN chk[s]
  /\ chk[s][k].pc = "locking"
  /\ IF LockResolves("res", resFile)
     THEN /\ locks' = [locks EXCEPT !["res"] = s]
          /\ IF RenderThrows(resFile)
             THEN ToFinally(s, k, [chk[s][k] EXCEPT !.acquired = TRUE])
             ELSE chk' = [chk EXCEPT ![s] = WithCheck(s, k,
                            [chk[s][k] EXCEPT
                               !.pc = "reading",
                               !.acquired = TRUE,
                               !.block = RenderBlock(sub[s].question, resFile)])]
     ELSE /\ ToFinally(s, k, chk[s][k])
          /\ UNCHANGED locks
  /\ UNCHANGED << reqFile, resFile, doc, docExists, sub, timer, unlinks, notes,
                  escaped, nChecks, nDocReads, nDocWrites, nResponses, nEdits,
                  nFound, doc0, lastResponse >>

\* vault.read settles (line 171); lines 172-175 run up to vault.modify.
CheckReadDone(s, k) ==
  /\ ~MicrotaskReady
  /\ k \in DOMAIN chk[s]
  /\ chk[s][k].pc = "reading"
  /\ IF docExists
     THEN /\ chk' = [chk EXCEPT ![s] = WithCheck(s, k,
                       [chk[s][k] EXCEPT
                          !.pc = "modifying",
                          !.currentContent = doc,
                          !.content = newContent(doc, chk[s][k].block)])]
          /\ nDocReads' = [nDocReads EXCEPT ![s] = @ + 1]
     ELSE /\ ToFinally(s, k, chk[s][k])
          /\ UNCHANGED nDocReads
  /\ UNCHANGED << reqFile, resFile, locks, doc, docExists, sub, timer, unlinks,
                  notes, escaped, nChecks, nDocWrites, nResponses, nEdits,
                  nFound, doc0, lastResponse >>

\* vault.modify settles (line 175); vault.read is called again (line 177).
CheckModifyDone(s, k) ==
  /\ ~MicrotaskReady
  /\ k \in DOMAIN chk[s]
  /\ chk[s][k].pc = "modifying"
  /\ IF docExists
     THEN /\ doc' = chk[s][k].content
          /\ nDocWrites' = [nDocWrites EXCEPT ![s] = @ + 1]
          /\ chk' = [chk EXCEPT ![s] = WithCheck(s, k,
                       [chk[s][k] EXCEPT !.pc = "verifying"])]
     ELSE /\ ToFinally(s, k, chk[s][k])
          /\ UNCHANGED << doc, nDocWrites >>
  /\ UNCHANGED << reqFile, resFile, locks, docExists, sub, timer, unlinks,
                  notes, escaped, nChecks, nDocReads, nResponses, nEdits,
                  nFound, doc0, lastResponse >>

\* Mutant: the retry after a failed verification starts the count again.
RetryFromStart(k) == 0

\* Mutant: the retry after a failed verification keeps the count.
RetryUnchanged(k) == k

\* The retry count passed to the check scheduled after a failed
\* verification (line 184).
RetryAfterFailedVerify(k) == k + 1

\* The second vault.read settles (line 177); lines 178-185 verify the
\* merge, then the finally block calls unlock.
CheckVerifyDone(s, k) ==
  /\ ~MicrotaskReady
  /\ k \in DOMAIN chk[s]
  /\ chk[s][k].pc = "verifying"
  /\ ToFinally(s, k, chk[s][k])
  /\ IF docExists
     THEN /\ nDocReads' = [nDocReads EXCEPT ![s] = @ + 1]
          /\ IF Includes(doc, chk[s][k].block)
             THEN /\ Notice(s, "rendered")
                  /\ UNCHANGED timer
             ELSE /\ Notice(s, "retrying")
                  /\ timer' = [timer EXCEPT
                                 ![s] = @ \cup {RetryAfterFailedVerify(k)}]
     ELSE UNCHANGED << nDocReads, notes, timer >>
  /\ UNCHANGED << reqFile, resFile, locks, doc, docExists, sub, unlinks,
                  escaped, nChecks, nDocWrites, nResponses, nEdits,
                  nFound, doc0, lastResponse >>

\* unlock(resultsPath) settles (line 189).  When it resolves, fs.unlink is
\* called and the check returns; when it rejects, the rejection leaves the
\* finally block, nothing handles it, and fs.unlink is not called.
CheckUnlockDone(s, k) ==
  /\ ~MicrotaskReady
  /\ k \in DOMAIN chk[s]
  /\ chk[s][k].pc = "unlocking"
  /\ chk' = [chk EXCEPT ![s] = WithoutCheck(s, k)]
  /\ IF UnlockResolves("res")
     THEN /\ locks' = [locks EXCEPT !["res"] = "free"]
          /\ unlinks' = [unlinks EXCEPT ![s] = @ + 1]
          /\ UNCHANGED escaped
     ELSE /\ escaped' = [escaped EXCEPT ![s] = @ + 1]
          /\ UNCHANGED << locks, unlinks >>
  /\ UNCHANGED << reqFile, resFile, doc, docExists, sub, timer, notes,
                  nChecks, nDocReads, nDocWrites, nResponses, nEdits,
                  nFound, doc0, lastResponse >>

\* The callback of fs.unlink runs (lines 190-196): the file is gone, or the
\* error is logged.
UnlinkDone(s) ==
  /\ ~MicrotaskReady
  /\ unlinks[s] > 0
  /\ unlinks' = [unlinks EXCEPT ![s] = @ - 1]
  /\ resFile' = Absent
  /\ UNCHANGED << reqFile, locks, doc, docExists, sub, timer, chk, notes,
                  escaped, nChecks, nDocReads, nDocWrites, nResponses, nEdits,
                  nFound, doc0, lastResponse >>

----------------------------------------------------------------------------
(* handleQuestionSubmit.                                                   *)

\* The record the locked section starts from (lines 110-119): the parsed
\* content, or the default when the file is empty or cannot be read or
\* parsed.
DefaultData == JObj([question |-> JStr(<<>>)])

\* Mutant: the created record carries a second field.
questionDataStamped(q) == JObj([question |-> JStr(q), created |-> JStr(<<"t">>)])

\* questionData (line 101)
questionData(q) == JObj([question |-> JStr(q)])

existingData(content) == IF Parses(content) THEN Parse(content) ELSE DefaultData

\* The submit listener calls handleQuestionSubmit (line 41); lines 98-107
\* run: the file is created when absent, then lock is called.
Submit(s, q) ==
  /\ ~MicrotaskReady
  /\ sub[s].pc = "idle"
  /\ reqFile' = IF existsSync(reqFile)
                THEN reqFile
                ELSE Stringify(questionData(q))
  /\ sub' = [sub EXCEPT ![s] = [pc |-> "locking", question |-> q,
                                acquired |-> FALSE, prior |-> reqFile]]
  /\ UNCHANGED << resFile, locks, doc, docExists, timer, chk, unlinks, notes,
                  escaped, nChecks, nDocReads, nDocWrites, nResponses, nEdits,
                  nFound, doc0, lastResponse >>

\* lock(jsonPath) settles (line 107).  On success lines 110-127 run: the
\* record is updated and written, and renderResultsWhenAvailable starts
\* checkResults(0).  A rejection of lock, or the TypeError of line 122, ends
\* in the catch (Notice) and the finally block calls unlock.
SubmitLockDone(s) ==
  /\ ~MicrotaskReady
  /\ sub[s].pc = "locking"
  /\ IF LockResolves("req", reqFile)
     THEN /\ locks' = [locks EXCEPT !["req"] = s]
          /\ IF CanSetProp(existingData(reqFile))
             THEN /\ reqFile' = Stringify(SetProp(existingData(reqFile),
                                                  "question", JStr(sub[s].question)))
                  /\ sub' = [sub EXCEPT ![s].pc = "rendering", ![s].acquired = TRUE]
                  /\ checkResults(s, 0, timer[s])
             ELSE /\ sub' = [sub EXCEPT ![s].pc = "unlocking", ![s].acquired = TRUE]
                  /\ Notice(s, "submitFailed")
                  /\ UNCHANGED << reqFile, timer, chk, nChecks, nFound >>
     ELSE /\ sub' = [sub EXCEPT ![s].pc = "unlocking"]
          /\ Notice(s, "submitFailed")
          /\ UNCHANGED << reqFile, locks, timer, chk, nChecks, nFound >>
  /\ UNCHANGED << resFile, doc, docExists, unlinks, escaped, nDocReads,
                  nDocWrites, nResponses, nEdits,
                  doc0, lastResponse >>

\* handleQuestionSubmit resumes after the await of line 127 and enters the
\* finally block: unlock is called.
SubmitResume(s) ==
  /\ sub[s].pc = "rendering"
  /\ RenderSettled(s)
  /\ sub' = [sub EXCEPT ![s].pc = "unlocking"]
  /\ UNCHANGED << reqFile, resFile, locks, doc, docExists, timer, chk, unlinks,
                  notes, escaped, nChecks, nDocReads, nDocWrites, nResponses,
                  nEdits,
                  nFound, doc0, lastResponse >>

\* unlock(jsonPath) settles (line 134): handleQuestionSubmit returns, or
\* its promise rejects; the listener of line 41 attaches no handler.
SubmitUnlockDone(s) ==
  /\ ~MicrotaskReady
  /\ sub[s].pc = "unlocking"
  /\ IF UnlockResolves("req")
     THEN /\ locks' = [locks EXCEPT !["req"] = "free"]
          /\ sub' = [sub EXCEPT ![s].pc = "done"]
          /\ UNCHANGED escaped
     ELSE /\ sub' = [sub EXCEPT ![s].pc = "rejected"]
          /\ escaped' = [escaped EXCEPT ![s] = @ + 1]
          /\ UNCHANGED locks
  /\ UNCHANGED << reqFile, resFile, doc, docExists, timer, chk, unlinks, notes,
                  nChecks, nDocReads, nDocWrites, nResponses, nEdits,
                  nFound, doc0, lastResponse >>

----------------------------------------------------------------------------
(* Collaborators.                                                          *)

\* The questions submitted so far.
Submitted == { s \in Procs : sub[s].pc # "idle" }

\* The answering process writes the response file once a question is
\* there; it writes a further record when the previous one is gone, up to
\* MaxResponses records for each question submitted.
AnswerWrites(text) ==
  /\ ~MicrotaskReady
  /\ ~existsSync(resFile)
  /\ nResponses < MaxResponses * Cardinality(Submitted)
  /\ resFile' = text
  /\ lastResponse' = text
  /\ nResponses' = nResponses + 1
  /\ UNCHANGED << reqFile, locks, doc, docExists, sub, timer, chk, unlinks,
                  notes, escaped, nChecks, nDocReads, nDocWrites, nEdits,
                  nFound, doc0 >>

\* A call of lock(file) has not settled yet.
LockInFlight(f) ==
  \E s \in Procs :
    IF f = "req"
    THEN sub[s].pc = "locking"
    ELSE \E k \in DOMAIN chk[s] : chk[s][k].pc = "locking"

\* A check is at work on the document: between its call of vault.read and
\* the verification of its merge.
CheckInFlight ==
  \E s \in Procs : \E k \in DOMAIN chk[s] :
    chk[s][k].pc \in {"reading", "modifying", "verifying"}

\* Another process takes the advisory lock of a file.  The plugin sees the
\* lock only when its own lock call settles, so the foreign lock is taken
\* while such a call is in flight.
ForeignLock(f) ==
  /\ ~MicrotaskReady
  /\ LockInFlight(f)
  /\ locks[f] = "free"
  /\ locks' = [locks EXCEPT ![f] = "foreign"]
  /\ UNCHANGED << reqFile, resFile, doc, docExists, sub, timer, chk, unlinks,
                  notes, escaped, nChecks, nDocReads, nDocWrites, nResponses,
                  nEdits,
                  nFound, doc0, lastResponse >>

\* ... and gives it back.
ForeignUnlock(f) ==
  /\ ~MicrotaskReady
  /\ locks[f] = "foreign"
  /\ locks' = [locks EXCEPT ![f] = "free"]
  /\ UNCHANGED << reqFile, resFile, doc, docExists, sub, timer, chk, unlinks,
                  notes, escaped, nChecks, nDocReads, nDocWrites, nResponses,
                  nEdits,
                  nFound, doc0, lastResponse >>

\* The user edits the document in the editor while a check is at work.
EditDocument(t) ==
  /\ ~MicrotaskReady
  /\ CheckInFlight
  /\ nEdits < MaxEdits
  /\ docExists
  /\ doc' = t
  /\ nEdits' = nEdits + 1
  /\ UNCHANGED << reqFile, resFile, locks, docExists, sub, timer, chk, unlinks,
                  notes, escaped, nChecks, nDocReads, nDocWrites, nResponses,
                  nFound, doc0, lastResponse >>

\* The user deletes the document while a check is at work.
DeleteDocument ==
  /\ ~MicrotaskReady
  /\ CheckInFlight
  /\ nEdits < MaxEdits
  /\ docExists
  /\ docExists' = FALSE
  /\ nEdits' = nEdits + 1
  /\ UNCHANGED << reqFile, resFile, locks, doc, sub, timer, chk, unlinks,
                  notes, escaped, nChecks, nDocReads, nDocWrites, nResponses,
                  nFound, doc0, lastResponse >>

----------------------------------------------------------------------------
(* Specifications.                                                         *)

Step(s) ==
  \/ \E q \in Questions : Submit(s, q)
  \/ SubmitLockDone(s)
  \/ SubmitResume(s)
  \/ SubmitUnlockDone(s)
  \/ \E k \in 0..maxRetries : TimerFire(s, k)
  \/ \E k \in 0..maxRetries : CheckLockDone(s, k)
  \/ \E k \in 0..maxRetries : CheckReadDone(s, k)
  \/ \E k \in 0..maxRetries : CheckModifyDone(s, k)
  \/ \E k \in 0..maxRetries : CheckVerifyDone(s, k)
  \/ \E k \in 0..maxRetries : CheckUnlockDone(s, k)
  \/ UnlinkDone(s)

Env ==
  \/ \E text \in ResponseTexts : AnswerWrites(text)
  \/ \E f \in Files : ForeignLock(f)
  \/ \E f \in Files : ForeignUnlock(f)
  \/ \E t \in EditTexts : EditDocument(t)
  \/ DeleteDocument

\* One submission and its polling sequence.
Next ==
  \/ \E s \in Single : Step(s)
  \/ Env

Spec == Init /\ [][Next]_vars

\* The dispatcher alone, from every prior request file: the polling
\* sequence it starts stays suspended.
NextSubmit ==
  \/ \E s \in Single :
       \/ \E q \in AllQuestions : Submit(s, q)
       \/ SubmitLockDone(s)
       \/ SubmitResume(s)
       \/ SubmitUnlockDone(s)
  \/ \E text \in ResponseTexts : AnswerWrites(text)
  \/ \E f \in Files : ForeignLock(f)
  \/ \E f \in Files : ForeignUnlock(f)

SpecSubmit == InitSubmit /\ [][NextSubmit]_vars

\* One check that has locked a well-formed response file and is about to
\* read the document, the document being one of docs.
Merging(docs) ==
  \E q \in AllQuestions, text \in { t \in ResponseTexts : ~RenderThrows(t) } :
    /\ reqFile = Stringify(questionData(q))
    /\ resFile = text
    /\ locks = [f \in Files |-> IF f = "res" THEN "s1" ELSE "free"]
    /\ doc \in docs
    /\ docExists = TRUE
    /\ sub = [s \in Procs |->
                IF s = "s1"
                THEN [pc |-> "done", question |-> q, acquired |-> TRUE,
                      prior |-> Absent]
                ELSE Idle]
    /\ timer = [s \in Procs |-> {}]
    /\ chk = [s \in Procs |->
                IF s = "s1"
                THEN 0 :> [NewCheck EXCEPT !.pc = "reading", !.acquired = TRUE,
                                            !.block = RenderBlock(q, text)]
                ELSE NoChecks]
    /\ unlinks = [s \in Procs |-> 0]
    /\ notes = [s \in Procs |-> NoNotes]
    /\ escaped = [s \in Procs |-> 0]
    /\ nChecks = [s \in Procs |-> IF s = "s1" THEN 1 ELSE 0]
    /\ nDocReads = [s \in Procs |-> 0]
    /\ nDocWrites = [s \in Procs |-> 0]
    /\ nResponses = 1
    /\ nEdits = 0
    /\ nFound = [s \in Procs |-> IF s = "s1" THEN 1 ELSE 0]
    /\ doc0 = doc
    /\ lastResponse = text

\* ... for every document text.
InitMerge == Merging(AllDocs)

NextMerge ==
  \E s \in Single :
    \/ \E k \in 0..maxRetries : CheckReadDone(s, k)
    \/ \E k \in 0..maxRetries : CheckModifyDone(s, k)
    \/ \E k \in 0..maxRetries : CheckVerifyDone(s, k)
    \/ \E k \in 0..maxRetries : CheckUnlockDone(s, k)
    \/ UnlinkDone(s)

SpecMerge == InitMerge /\ [][NextMerge]_vars

\* Two submissions one after the other: the check of the first is about to
\* read the document; the second question is submitted once the sequence
\* of the first has nothing left to run, and runs its own sequence.
InitSeq == Merging(InitDocs)

NextSeq ==
  \/ NextMerge
  \/ \E s \in Procs \ Single :
       \/ \E q \in AllQuestions :
            (\A r \in Single : Terminated(r)) /\ Submit(s, q)
       \/ SubmitLockDone(s)
       \/ SubmitResume(s)
       \/ SubmitUnlockDone(s)
       \/ \E k \in 0..maxRetries : TimerFire(s, k)
       \/ \E k \in 0..maxRetries : CheckLockDone(s, k)
       \/ \E k \in 0..maxRetries : CheckReadDone(s, k)
       \/ \E k \in 0..maxRetries : CheckModifyDone(s, k)
       \/ \E k \in 0..maxRetries : CheckVerifyDone(s, k)
       \/ \E k \in 0..maxRetries : CheckUnlockDone(s, k)
       \/ UnlinkDone(s)
  \/ \E text \in ResponseTexts : AnswerWrites(text)

SpecSeq == InitSeq /\ [][NextSeq]_vars

\* The rendering alone: checkResults(0) has found a response file with any
\* list of sources and has called lock; the submission has returned.
InitRender ==
  \E q \in Questions :
    /\ reqFile = Stringify(questionData(q))
    /\ resFile \in RenderTexts
    /\ locks = [f \in Files |-> "free"]
    /\ doc = getInitialContent
    /\ docExists = TRUE
    /\ sub = [s \in Procs |->
                IF s \in Single
                THEN [pc |-> "done", question |-> q, acquired |-> TRUE,
                      prior |-> Absent]
                ELSE Idle]
    /\ timer = [s \in Procs |-> {}]
    /\ chk = [s \in Procs |-> IF s \in Single THEN 0 :> NewCheck ELSE NoChecks]
    /\ unlinks = [s \in Procs |-> 0]
    /\ notes = [s \in Procs |-> NoNotes]
    /\ escaped = [s \in Procs |-> 0]
    /\ nChecks = [s \in Procs |-> IF s \in Single THEN 1 ELSE 0]
    /\ nDocReads = [s \in Procs |-> 0]
    /\ nDocWrites = [s \in Procs |-> 0]
    /\ nResponses = 1
    /\ nEdits = 0
    /\ nFound = [s \in Procs |-> IF s \in Single THEN 1 ELSE 0]
    /\ doc0 = doc
    /\ lastResponse = resFile

NextRender ==
  \/ \E s \in Single : \E k \in 0..maxRetries : CheckLockDone(s, k)
  \/ NextMerge

SpecRender == InitRender /\ [][NextRender]_vars

\* The questions of two submissions made one after the other.
PairQuestions == [s \in Procs |-> IF s \in Single THEN <<"q">> ELSE <<"r">>]

\* Retry counts at which the two sequences are taken up.
PairCounts == { maxRetries - 2, maxRetries - 1 }

\* Two polling sequences side by side: both submissions have returned, no
\* response file has shown up yet, and each sequence has its next check
\* scheduled.
InitPair ==
  \E count \in [Procs -> PairCounts] :
    /\ reqFile = Stringify(questionData(PairQuestions["s2"]))
    /\ resFile = Absent
    /\ locks = [f \in Files |-> "free"]
    /\ doc = getInitialContent
    /\ docExists = TRUE
    /\ sub = [s \in Procs |->
                [pc |-> "done", question |-> PairQuestions[s],
                 acquired |-> TRUE, prior |-> Absent]]
    /\ timer = [s \in Procs |-> {count[s]}]
    /\ chk = [s \in Procs |-> NoChecks]
    /\ unlinks = [s \in Procs |-> 0]
    /\ notes = [s \in Procs |-> NoNotes]
    /\ escaped = [s \in Procs |-> 0]
    /\ nChecks = count
    /\ nDocReads = [s \in Procs |-> 0]
    /\ nDocWrites = [s \in Procs |-> 0]
    /\ nResponses = 0
    /\ nEdits = 0
    /\ nFound = [s \in Procs |-> 0]
    /\ doc0 = doc
    /\ lastResponse = Absent

NextPair ==
  \/ \E s \in Procs :
       \/ \E k \in 0..maxRetries : TimerFire(s, k)
       \/ \E k \in 0..maxRetries : CheckLockDone(s, k)
       \/ \E k \in 0..maxRetries : CheckReadDone(s, k)
       \/ \E k \in 0..maxRetries : CheckModifyDone(s, k)
       \/ \E k \in 0..maxRetries : CheckVerifyDone(s, k)
       \/ \E k \in 0..maxRetries : CheckUnlockDone(s, k)
       \/ UnlinkDone(s)
  \/ \E text \in ResponseTexts : AnswerWrites(text)

SpecPair == InitPair /\ [][NextPair]_vars

----------------------------------------------------------------------------
(* Properties.                                                             *)

Finished(s) == sub[s].pc \in {"done", "rejected"}

\* The header region of a text: everything before the first delimiter.
HeaderOf(text) ==
  LET i == IndexOf(text, Delimiter)
  IN  IF i = 0 THEN text ELSE SubSeq(text, 1, i - 1)

\* The body region of a text: everything after the first delimiter.
BodyOf(text) ==
  LET i == IndexOf(text, Delimiter)
  IN  IF i = 0 THEN <<>> ELSE SubSeq(text, i + Len(Delimiter), Len(text))

StartsWith(text, prefix) ==
  /\ Len(prefix) <= Len(text)
  /\ SubSeq(text, 1, Len(prefix)) = prefix

\* A well-formed Response Record: a non-empty answer string and a sequence
\* of source paths.
ValidRecord(text) ==
  /\ Parses(text)
  /\ IsObj(Parse(text))
  /\ IsStr(GetProp(Parse(text), "answer"))
  /\ Truthy(GetProp(Parse(text), "answer"))
  /\ IsArr(GetProp(Parse(text), "sources"))
  /\ \A i \in 1..Len(GetProp(Parse(text), "sources")[2]) :
       IsStr(GetProp(Parse(text), "sources")[2][i])

\* C1: once handleQuestionSubmit(q) has finished with the lock acquired,
\* the request file holds a record whose question field is q, whatever the
\* file held before.
C1_SubmitStoresQuestion ==
  \A s \in Procs :
    Finished(s) /\ sub[s].acquired
      => QuestionIn(reqFile) = JStr(sub[s].question)

\* C2: if the request file was absent when handleQuestionSubmit(q) started,
\* then once it has finished the file exists and holds exactly the record
\* {question: q}.
C2_AbsentFileGetsOnlyQuestion ==
  \A s \in Procs :
    Finished(s) /\ sub[s].prior = Absent
      => reqFile = JsonText(JObj([question |-> JStr(sub[s].question)]))

C2_Witness ==
  /\ sub["s1"].pc = "done"
  /\ sub["s1"].prior = Absent
  /\ sub["s1"].question = <<"q">>

\* C3: a polling sequence in which no check finds the response file never
\* reads or writes the document, shows the failure notice at most once, and
\* when the notice is shown has made 30 existence checks and has no check
\* scheduled; it ends with exactly 30 checks and one failure notice.
C3_NeverFoundExhausts ==
  \A s \in Procs :
    nFound[s] = 0 =>
      /\ nDocReads[s] = 0
      /\ nDocWrites[s] = 0
      /\ notes[s].rendered = 0
      /\ notes[s].retrying = 0
      /\ notes[s].pollFailed <= 1
      /\ nChecks[s] <= 30
      /\ notes[s].pollFailed = 1 => nChecks[s] = 30 /\ timer[s] = {}
      /\ Terminated(s) /\ nChecks[s] > 0 =>
           nChecks[s] = 30 /\ notes[s].pollFailed = 1

C3_Witness ==
  /\ Terminated("s1")
  /\ nFound["s1"] = 0
  /\ nChecks["s1"] = 30
  /\ notes["s1"].pollFailed = 1

\* The document after one merge of block into text: trimmed header,
\* delimiter, block, trimmed body.
MergedDoc(text, block) ==
  Trim(HeaderOf(text)) \o <<NL, NL>> \o Delimiter \o <<NL, NL>> \o block
    \o Trim(BodyOf(text))

\* The block of a well-formed record: heading with the question, the
\* answer, the source section, the closing delimiter.
BlockOf(question, text) ==
  HeadingPrefix \o question \o <<NL, NL>> \o GetProp(Parse(text), "answer")[2]
    \o SourcesHeading \o sourcesText(GetProp(Parse(text), "sources")) \o BlockEnd

\* The answering process wrote one well-formed record, sequence s found it,
\* every lock was acquired and nobody else touched the document.
FoundValidRecord(s) ==
  /\ nFound[s] >= 1
  /\ nResponses = 1
  /\ ValidRecord(lastResponse)
  /\ escaped[s] = 0
  /\ nEdits = 0

\* C4: a polling sequence that finds a well-formed record at some check
\* (with the lock free and the document left alone) ends with the document
\* holding the rendered block directly after the header delimiter and
\* before the earlier body, one success notice, and no response file.
C4_FoundRecordIsMerged ==
  \A s \in Procs :
    Terminated(s) /\ FoundValidRecord(s) =>
      /\ doc = MergedDoc(doc0, BlockOf(sub[s].question, lastResponse))
      /\ notes[s].rendered = 1
      /\ notes[s].pollFailed = 0
      /\ resFile = Absent

C4_Witness ==
  /\ Terminated("s1")
  /\ FoundValidRecord("s1")
  /\ nChecks["s1"] = 5
  /\ notes["s1"].rendered = 1
  /\ BodyOf(doc0) # <<>>

\* The check of retry count k of sequence s leaves its verification step.
VerifyStep(s, k) ==
  /\ k \in DOMAIN chk[s]
  /\ chk[s][k].pc = "verifying"
  /\ k \in DOMAIN chk'[s]
  /\ chk'[s][k].pc = "unlocking"

DefaultBlock(question) ==
  answerContent(question, JStr(Placeholder), JArr(<<>>, NoProps))

\* C6 as claimed: a sequence that found a response file whose content is
\* not JSON (lock acquired, document left alone) has merged the block built
\* from the default record into the document by the time it ends.
C6_MalformedResponseMergesDefaults ==
  \A s \in Procs :
    /\ Terminated(s)
    /\ nFound[s] >= 1
    /\ nResponses = 1
    /\ ~Parses(lastResponse)
    /\ escaped[s] = 0
    /\ nEdits = 0
    => /\ nDocWrites[s] >= 1
       /\ Includes(doc, DefaultBlock(sub[s].question))

\* C7 as claimed: no rejection leaves handleQuestionSubmit or a check
\* without a handler.
C7_NothingEscapes ==
  \A s \in Procs : escaped[s] = 0 /\ sub[s].pc # "rejected"

SomeNotice(s) ==
  \E m \in DOMAIN NoNotes : notes'[s][m] = notes[s][m] + 1

\* C8 as claimed: when lock acquisition fails in handleQuestionSubmit or in
\* a check that found the response file, a Notice is shown and the
\* operation goes on to its lock release.
C8_LockFailureNotified ==
  [][\A s \in Procs :
       /\ sub[s].pc = "locking" /\ sub'[s].pc # "locking"
            /\ ~LockResolves("req", reqFile)
          => SomeNotice(s) /\ sub'[s].pc = "unlocking"
       /\ \A k \in DOMAIN chk[s] :
            /\ chk[s][k].pc = "locking"
            /\ ~LockResolves("res", resFile)
            /\ k \in DOMAIN chk'[s]
            /\ chk'[s][k].pc # "locking"
            => SomeNotice(s) /\ chk'[s][k].pc = "unlocking"]_vars

\* C9: handleQuestionSubmit goes on to release the request-file lock when
\* exactly one check has been started and the polling sequence still has
\* work pending, and the release never waits for the sequence.
C9_SubmitDoesNotAwaitPolling ==
  [][\A s \in Procs :
       sub[s].pc = "rendering" /\ sub'[s].pc = "unlocking"
         => /\ nChecks[s] = 1
            /\ timer[s] # {} \/ DOMAIN chk[s] # {}
            /\ notes[s].pollFailed = 0
            /\ nDocWrites[s] = 0]_vars

\* handleQuestionSubmit has returned while a later check is merging.
C9_Witness ==
  /\ sub["s1"].pc = "done"
  /\ \E k \in DOMAIN chk["s1"] : k >= 1 /\ chk["s1"][k].pc = "modifying"

\* C10 as claimed: the merged text starts with the header region of the
\* text read, white space included.
C10_HeaderVerbatim ==
  \A s \in Procs : \A k \in DOMAIN chk[s] :
    chk[s][k].pc = "modifying"
      => StartsWith(chk[s][k].content, HeaderOf(chk[s][k].currentContent))

\* C10 amended: the merged text starts with the header region of the text
\* read with its leading and trailing white space removed, followed by a
\* blank line and the delimiter.
C10_HeaderTrimmed ==
  \A s \in Procs : \A k \in DOMAIN chk[s] :
    chk[s][k].pc = "modifying"
      => StartsWith(chk[s][k].content,
                    Trim(HeaderOf(chk[s][k].currentContent))
                      \o <<NL, NL>> \o Delimiter)

\* A merge of a text whose header has white space at both ends.
C10_Witness ==
  \E k \in DOMAIN chk["s1"] :
    /\ chk["s1"][k].pc = "modifying"
    /\ LET h == HeaderOf(chk["s1"][k].currentContent)
       IN  /\ Len(h) >= 3
           /\ IsSpace(h[1])
           /\ IsSpace(h[Len(h)])
           /\ Trim(h) # <<>>

\* The check of retry count k of sequence s writes its merged text.
MergeStep(s, k) ==
  /\ k \in DOMAIN chk[s]
  /\ chk[s][k].pc = "modifying"
  /\ k \in DOMAIN chk'[s]
  /\ chk'[s][k].pc = "verifying"

\* The blocks a sequence may have rendered.
RenderedBlocks ==
  { RenderBlock(q, text) :
      q \in AllQuestions, text \in { t \in ResponseTexts : ~RenderThrows(t) } }

\* C11 as claimed: a merge drops nothing rendered before: every rendered
\* block the document held when the merge read it is still in the
\* document after the merge.
C11_BlocksRetained ==
  [][\A s \in Procs : \A k \in 0..maxRetries :
       MergeStep(s, k) =>
         \A b \in RenderedBlocks :
           Includes(chk[s][k].currentContent, b) => Includes(doc', b)]_vars

\* C11 amended: after a merge the body region is a blank line, the new
\* block, then the body region of the text read with its leading and
\* trailing white space removed, further delimiters included.
C11_BodyKeptTrimmed ==
  [][\A s \in Procs : \A k \in 0..maxRetries :
       MergeStep(s, k) =>
         BodyOf(doc') = <<NL, NL>> \o chk[s][k].block
                          \o Trim(BodyOf(chk[s][k].currentContent))]_vars

\* Two sequences have merged one after the other into a document whose
\* body held a delimiter of its own.
C11_Witness ==
  /\ Terminated("s1") /\ Terminated("s2")
  /\ nDocWrites["s1"] = 1 /\ nDocWrites["s2"] = 1
  /\ Includes(BodyOf(doc0), Delimiter)
  /\ sub["s1"].question # sub["s2"].question
  /\ Includes(doc, <<"b", "-", "-", "-", "c">>)

\* The source section of a block: what stands between the sources heading
\* and the closing delimiter.
SourceSection(block) ==
  SubSeq(block, IndexOf(block, SourcesHeading) + Len(SourcesHeading),
         Len(block) - Len(BlockEnd))

\* The base name of a path with its extension removed: the text after the
\* last "/", up to its last "." unless that is its first character.
Stem(p) ==
  LET i == LastIndexOfChar(p, "/")
      c == SubSeq(p, i + 1, Len(p))
      d == LastIndexOfChar(c, ".")
  IN  IF d > 1 THEN SubSeq(c, 1, d - 1) ELSE c

\* The sources of a Response Record as a sequence of paths; empty when the
\* field is missing or null.
DeclaredSources(text) ==
  LET x == GetProp(Parse(text), "sources")
  IN  IF IsArr(x) THEN [i \in DOMAIN x[2] |-> x[2][i][2]] ELSE <<>>

\* C12: the source section of the block rendered from a record has one
\* line per entry of sources, in the order of the entries, each line being
\* "- [[name]]" with name the base name of the entry without its
\* extension; with no entries, or no sources field, the section is the
\* single line "- No sources found.".
C12_SourceSection ==
  \A s \in Procs : \A k \in DOMAIN chk[s] :
    chk[s][k].pc = "reading" =>
      LET src     == DeclaredSources(lastResponse)
          section == SourceSection(chk[s][k].block)
          lines   == Split(section, <<NL>>)
      IN  IF src = <<>>
          THEN section = <<"-", " ", "N", "o", " ", "s", "o", "u", "r", "c",
                           "e", "s", " ", "f", "o", "u", "n", "d", ".">>
          ELSE /\ Len(lines) = Len(src)
               /\ \A i \in 1..Len(src) :
                    lines[i] = <<"-", " ", "[", "[">> \o Stem(src[i])
                                 \o <<"]", "]">>

\* A record with a path in a folder after a dot file has been rendered.
C12_Witness ==
  \E k \in DOMAIN chk["s1"] :
    /\ chk["s1"][k].pc = "reading"
    /\ DeclaredSources(lastResponse)
         = << <<".", "h">>, <<"n", "/", "A", ".", "m", "d">> >>
    /\ Includes(chk["s1"][k].block,
                <<"-", " ", "[", "[", ".", "h", "]", "]", NL,
                  "-", " ", "[", "[", "A", "]", "]", NL>>)

\* The check of retry count k of sequence s returns or rejects.
CheckEnds(s, k) ==
  /\ k \in DOMAIN chk[s]
  /\ k \notin DOMAIN chk'[s]

\* C13 as claimed: every check that found the response file ends by calling
\* fs.unlink on it, whichever way its try block was left.
C13_FoundCheckUnlinks ==
  [][\A s \in Procs : \A k \in 0..maxRetries :
       CheckEnds(s, k) => unlinks'[s] = unlinks[s] + 1]_vars

\* The polling sequence of s has started and has nothing left to run: no
\* check scheduled, none in flight, no deletion pending.
SequenceEnded(s) ==
  /\ nChecks[s] > 0
  /\ timer[s] = {}
  /\ DOMAIN chk[s] = {}
  /\ unlinks[s] = 0

\* C16 as claimed: a polling sequence that has nothing left to run has
\* shown the failure notice or the success notice, or a rejection has
\* escaped it.
C16_NoSilentEnd ==
  \A s \in Procs :
    SequenceEnded(s) =>
      \/ notes[s].pollFailed > 0
      \/ notes[s].rendered > 0
      \/ escaped[s] > 0

\* C17: at most one check is scheduled at a time and its retry count is
\* the number of existence checks made so far, whichever path scheduled
\* it; every check in flight has a smaller count; every merge has used up
\* one check, so a sequence makes at most 30 existence checks and at most
\* 30 merges, and shows the failure notice at most once.
C17_CounterBoundsPolling ==
  \A s \in Procs :
    /\ Cardinality(timer[s]) <= 1
    /\ \A k \in timer[s] : k = nChecks[s]
    /\ \A k \in DOMAIN chk[s] : k < nChecks[s]
    /\ nDocWrites[s] <= nFound[s]
    /\ nFound[s] <= nChecks[s]
    /\ nChecks[s] <= 30
    /\ nDocWrites[s] <= 30
    /\ notes[s].pollFailed <= 1

\* A sequence whose merge failed its verification went on polling, the
\* failed merge counted, and stopped at the thirtieth check.
C17_Witness ==
  /\ Terminated("s1")
  /\ notes["s1"].retrying >= 1
  /\ nDocWrites["s1"] >= 1
  /\ nChecks["s1"] = 30
  /\ notes["s1"].pollFailed = 1

\* C15 as claimed: a check of a sequence starts only when no earlier
\* check of the sequence is still in flight and no deletion of the
\* response file is pending.
C15_ChecksSequential ==
  [][\A s \in Procs :
       nChecks'[s] > nChecks[s]
         => DOMAIN chk[s] = {} /\ unlinks[s] = 0]_vars

\* The lock of file f is released in this step.
Released(f) == locks[f] \in Procs /\ locks'[f] = "free"

\* C14 as claimed: an operation that ends releases the lock of its file
\* exactly when it had acquired it: a check that acquired the
\* response-file lock releases it, a check that did not releases nothing,
\* and the same for handleQuestionSubmit and the request-file lock.
C14_LocksPaired ==
  [][\A s \in Procs :
       /\ \A k \in 0..maxRetries :
            CheckEnds(s, k) => (Released("res") <=> chk[s][k].acquired)
       /\ sub[s].pc = "unlocking" /\ sub'[s].pc # "unlocking"
            => (Released("req") <=> sub[s].acquired)]_vars

\* The checks inside the locked section of the response file: between the
\* call of vault.read and the verification of the merge.
InSection ==
  { <<s, k>> \in Procs \X (0..maxRetries) :
      k \in DOMAIN chk[s]
        /\ chk[s][k].pc \in {"reading", "modifying", "verifying"} }

\* C18 as claimed: at most one check is inside the locked section of the
\* response file, and a check that is reading or writing the document
\* holds the response-file lock.
C18_SectionHoldsLock ==
  /\ Cardinality(InSection) <= 1
  /\ \A c \in InSection : locks["res"] = c[1]

\* C19 as claimed: the sequences together have merged at most as many
\* times as the answering process has written records.
C19_RecordMergedOnce ==
  nDocWrites["s1"] + nDocWrites["s2"] <= nResponses

====
